---- MODULE Spec2Model ----
(***************************************************************************)
(* Model of torrent_mutators.go: compact, Client.TorrentSet and            *)
(* TorrentSetPayload.MarshalJSON.                                          *)
(*                                                                         *)
(* Representation.                                                         *)
(*  - A nilable Go value (pointer or slice) is None (nil) or Some(v).      *)
(*    Some(<<>>) is a non-nil slice of length 0.                           *)
(*  - The strings of TrackerList are sequences of bytes, because the code  *)
(*    orders them (sort.Strings) and concatenates them (strings.Join).     *)
(*    Other strings are opaque and are TLA+ strings.                       *)
(*  - A slice is its elements; where the backing array outlives the slice  *)
(*    (compact), the array and the length are kept apart.                  *)
(*  - time.Duration is counted in seconds instead of nanoseconds, so       *)
(*    Minute is 60.                                                        *)
(*  - An error is the chain of its messages, outermost first; nil is <<>>. *)
(***************************************************************************)
EXTENDS Integers, Sequences, FiniteSets, TLC

VARIABLES
    pc,        \* "built", "returned", "marshalled"; for compact "input", "compacted"
    payload,   \* the caller's TorrentSetPayload
    built,     \* the payload as the caller built it (history)
    calls,     \* the invocations of rpcCall, in order
    err,       \* what TorrentSet returned
    data,      \* what a direct MarshalJSON returned
    s,         \* compact: the slice handed in
    out        \* compact: [arr |-> backing array afterwards, len |-> length returned]

vars == <<pc, payload, built, calls, err, data, s, out>>

----------------------------------------------------------------------------
(* Bounds *)

MaxSet == 1        \* optional attributes set in a sparse payload
MaxIDs == 1        \* length of IDs
MaxTrackers == 3   \* length of TrackerList
MaxHalfMinutes == 3 \* SeedIdleLimit ranges over -3..3 half minutes
MaxLen == 4        \* length of the slices handed to compact on its own

----------------------------------------------------------------------------
(* Go values *)

None == <<>>
Some(v) == <<v>>
IsNil(x) == x = None
Deref(x) == x[1]

\* len() of a nilable slice: 0 for nil
len(x) == IF IsNil(x) THEN 0 ELSE Len(Deref(x))

\* 0-based indexing, as in the source
At(a, i) == a[i + 1]
Set(a, i, v) == [a EXCEPT ![i + 1] = v]

Min(a, b) == IF a < b THEN a ELSE b

\* string comparison (bytewise lexicographic), as sort.Strings uses it
Less(a, b) ==
    \E i \in 1..(Min(Len(a), Len(b)) + 1) :
        /\ \A j \in 1..(i - 1) : a[j] = b[j]
        /\ \/ i > Len(a) /\ i <= Len(b)
           \/ i <= Len(a) /\ i <= Len(b) /\ a[i] < b[i]

RECURSIVE insertSorted(_, _)
insertSorted(x, l) ==
    IF l = <<>> THEN <<x>>
    ELSE IF Less(Head(l), x) THEN <<Head(l)>> \o insertSorted(x, Tail(l))
    ELSE <<x>> \o l

\* sort.Strings: the ascending permutation of l
RECURSIVE sortStrings(_)
sortStrings(l) ==
    IF l = <<>> THEN <<>> ELSE insertSorted(Head(l), sortStrings(Tail(l)))

NL == 10

\* strings.Join(l, "\n")
RECURSIVE Join(_)
Join(l) ==
    IF l = <<>> THEN <<>>
    ELSE IF Len(l) = 1 THEN l[1]
    ELSE l[1] \o <<NL>> \o Join(Tail(l))

\* Go's integer division, which truncates toward zero
TruncDiv(a, b) == IF a >= 0 THEN a \div b ELSE -((-a) \div b)

Minute == 60

----------------------------------------------------------------------------
(* compact *)

\* an inner loop that copies the element before the one it compared
RECURSIVE compactInnerOffByOne(_, _, _, _)
compactInnerOffByOne(a, k0, k, k2) ==
    IF ~(k2 < Len(a) - k0) THEN [arr |-> a, len |-> k]
    ELSE IF At(a, k0 + k2) # At(a, k0 + k2 - 1)
         THEN compactInnerOffByOne(Set(a, k, At(a, k0 + k2 - 1)), k0, k + 1, k2 + 1)
         ELSE compactInnerOffByOne(a, k0, k, k2 + 1)

RECURSIVE compactInner(_, _, _, _)
compactInner(a, k0, k, k2) ==
    \* s2 := s[k0:] shares the array a; s2[i] is a[k0+i]
    IF ~(k2 < Len(a) - k0) THEN [arr |-> a, len |-> k]
    ELSE IF At(a, k0 + k2) # At(a, k0 + k2 - 1)
         THEN compactInner(Set(a, k, At(a, k0 + k2)), k0, k + 1, k2 + 1)
         ELSE compactInner(a, k0, k, k2 + 1)

RECURSIVE compactOuter(_, _)
compactOuter(a, k) ==
    IF ~(k < Len(a)) THEN [arr |-> a, len |-> Len(a)]
    ELSE IF At(a, k) = At(a, k - 1) THEN compactInner(a, k, k, 1)
    ELSE compactOuter(a, k + 1)

compact(a) ==
    IF Len(a) < 2 THEN [arr |-> a, len |-> Len(a)] ELSE compactOuter(a, 1)

\* the slice compact returns
Slice(r) == SubSeq(r.arr, 1, r.len)

----------------------------------------------------------------------------
(* TorrentSetPayload *)

\* The fields of TorrentSetPayload in declaration order, with their json tags.
\* kind: "int" *int64, "bool" *bool, "ints" []int64, "str" *string,
\* "strs" []string, "float" *float64, "mode" *SeedRatioMode,
\* "dur" *time.Duration, "trackers" []string
Fields == <<
    [name |-> "BandwidthPriority",   tag |-> "bandwidthPriority",   kind |-> "int"],
    [name |-> "DownloadLimit",       tag |-> "downloadLimit",       kind |-> "int"],
    [name |-> "DownloadLimited",     tag |-> "downloadLimited",     kind |-> "bool"],
    [name |-> "FilesWanted",         tag |-> "files-wanted",        kind |-> "ints"],
    [name |-> "FilesUnwanted",       tag |-> "files-unwanted",      kind |-> "ints"],
    [name |-> "Group",               tag |-> "group",               kind |-> "str"],
    [name |-> "HonorsSessionLimits", tag |-> "honorsSessionLimits", kind |-> "bool"],
    [name |-> "IDs",                 tag |-> "ids",                 kind |-> "ints"],
    [name |-> "Labels",              tag |-> "labels",              kind |-> "strs"],
    [name |-> "Location",            tag |-> "location",            kind |-> "str"],
    [name |-> "PeerLimit",           tag |-> "peer-limit",          kind |-> "int"],
    [name |-> "PriorityHigh",        tag |-> "priority-high",       kind |-> "ints"],
    [name |-> "PriorityLow",         tag |-> "priority-low",        kind |-> "ints"],
    [name |-> "PriorityNormal",      tag |-> "priority-normal",     kind |-> "ints"],
    [name |-> "QueuePosition",       tag |-> "queuePosition",       kind |-> "int"],
    [name |-> "SeedIdleLimit",       tag |-> "-",                   kind |-> "dur"],
    [name |-> "SeedIdleMode",        tag |-> "seedIdleMode",        kind |-> "int"],
    [name |-> "SeedRatioLimit",      tag |-> "seedRatioLimit",      kind |-> "float"],
    [name |-> "SeedRatioMode",       tag |-> "seedRatioMode",       kind |-> "mode"],
    [name |-> "TrackerList",         tag |-> "-",                   kind |-> "trackers"],
    [name |-> "UploadLimit",         tag |-> "uploadLimit",         kind |-> "int"],
    [name |-> "UploadLimited",       tag |-> "uploadLimited",       kind |-> "bool"] >>

FieldNames == {Fields[i].name : i \in 1..Len(Fields)}

\* The fields of MarshalJSON's intermediary struct tmp, in declaration order.
TmpFields == <<
    [name |-> "SeedIdleLimit",         tag |-> "seedIdleLimit"],
    [name |-> "TrackerList",           tag |-> "trackerList"],
    [name |-> "baseTorrentSetPayload", tag |-> ""] >>

----------------------------------------------------------------------------
(* MarshalJSON *)

\* map[string]interface{}
EmptyMap == [k \in {} |-> None]
Put(m, k, v) == [x \in (DOMAIN m) \cup {k} |-> IF x = k THEN v ELSE m[x]]

\* a conversion that rounds to the nearest minute
tmpStructRounding(tsp) ==
    [SeedIdleLimit |->
        IF ~IsNil(tsp.SeedIdleLimit)
        THEN Some(TruncDiv(Deref(tsp.SeedIdleLimit) + Minute \div 2, Minute)) ELSE None,
     TrackerList |->
        IF ~IsNil(tsp.TrackerList)
        THEN Some(Join(Deref(tsp.TrackerList))) ELSE None,
     baseTorrentSetPayload |-> Some(tsp)]

\* tmp after the two conversions
tmpStruct(tsp) ==
    [SeedIdleLimit |->
        IF ~IsNil(tsp.SeedIdleLimit)
        THEN Some(TruncDiv(Deref(tsp.SeedIdleLimit), Minute)) ELSE None,
     TrackerList |->
        IF ~IsNil(tsp.TrackerList)
        THEN Some(Join(Deref(tsp.TrackerList))) ELSE None,
     baseTorrentSetPayload |-> Some(tsp)]

\* v is the zero value of a field of this kind
IsZero(kind, v) ==
    CASE kind \in {"int", "float", "mode", "dur"} -> v = 0
      [] kind = "bool" -> v = FALSE
      [] kind = "str" -> v = ""
      [] OTHER -> v = <<>>

\* a walk that skips zero values, as omitempty does
RECURSIVE nestedWalkOmitEmpty(_, _, _)
nestedWalkOmitEmpty(nestedStruct, j, cleanPayload) ==
    IF ~(j < Len(Fields)) THEN cleanPayload
    ELSE LET currentNestedValue == nestedStruct[At(Fields, j).name]
             JSONKeyName == At(Fields, j).tag
         IN  IF /\ ~IsNil(currentNestedValue)
                /\ ~IsZero(At(Fields, j).kind, Deref(currentNestedValue))
                /\ JSONKeyName # "-"
             THEN nestedWalkOmitEmpty(nestedStruct, j + 1,
                             Put(cleanPayload, JSONKeyName, Deref(currentNestedValue)))
             ELSE nestedWalkOmitEmpty(nestedStruct, j + 1, cleanPayload)

\* a walk that does not skip the fields tagged "-"
RECURSIVE nestedWalkKeepDash(_, _, _)
nestedWalkKeepDash(nestedStruct, j, cleanPayload) ==
    IF ~(j < Len(Fields)) THEN cleanPayload
    ELSE LET currentNestedValue == nestedStruct[At(Fields, j).name]
             JSONKeyName == At(Fields, j).tag
         IN  IF ~IsNil(currentNestedValue)
             THEN nestedWalkKeepDash(nestedStruct, j + 1,
                             Put(cleanPayload, JSONKeyName, Deref(currentNestedValue)))
             ELSE nestedWalkKeepDash(nestedStruct, j + 1, cleanPayload)

\* the loop over the fields of the nested struct, from field j on
RECURSIVE nestedWalk(_, _, _)
nestedWalk(nestedStruct, j, cleanPayload) ==
    IF ~(j < Len(Fields)) THEN cleanPayload
    ELSE LET currentNestedValue == nestedStruct[At(Fields, j).name]
             JSONKeyName == At(Fields, j).tag
         IN  IF ~IsNil(currentNestedValue) /\ JSONKeyName # "-"
             THEN nestedWalk(nestedStruct, j + 1,
                             Put(cleanPayload, JSONKeyName, Deref(currentNestedValue)))
             ELSE nestedWalk(nestedStruct, j + 1, cleanPayload)

\* the loop over the fields of tmp, from field i on
RECURSIVE walk(_, _, _)
walk(tmp, i, cleanPayload) ==
    IF ~(i < Len(TmpFields)) THEN cleanPayload
    ELSE LET currentValue == tmp[At(TmpFields, i).name]
         IN  IF ~IsNil(currentValue)
             THEN IF At(TmpFields, i).name = "baseTorrentSetPayload"
                  THEN walk(tmp, i + 1, nestedWalk(Deref(currentValue), 0, cleanPayload))
                  ELSE walk(tmp, i + 1,
                            Put(cleanPayload, At(TmpFields, i).tag, Deref(currentValue)))
             ELSE walk(tmp, i + 1, cleanPayload)

\* The mapping json.Marshal encodes: a pointer is encoded as what it points to.
MarshalJSON(tsp) == walk(tmpStruct(tsp), 0, EmptyMap)

----------------------------------------------------------------------------
(* TorrentSet *)

NoError == <<>>

\* c.rpcCall(ctx, method, args, nil): the transport is handed args and returns res
rpcCall(method, args, res) ==
    [method |-> method, arguments |-> args, result |-> res]

\* what the transport can return
RPCResults == {NoError, <<"EOF">>}

\* a validation that lets a non-nil IDs of length 0 through
validateNilOnly(p) == IsNil(p.IDs)

\* if len(payload.IDs) == 0: TRUE when the payload is refused
validate(p) == len(p.IDs) = 0

\* normalisation that leaves the sorting out
fixTrackersUnsorted(tl) ==
    IF IsNil(tl) THEN [local |-> None, caller |-> None]
    ELSE LET r == compact(Deref(tl))
         IN  [local |-> Some(Slice(r)), caller |-> Some(r.arr)]

\* normalisation through a pointer to the caller's payload
fixTrackersByPointer(tl) ==
    IF IsNil(tl) THEN [local |-> None, caller |-> None]
    ELSE LET r == compact(sortStrings(Deref(tl)))
         IN  [local |-> Some(Slice(r)), caller |-> Some(Slice(r))]

\* sort.Strings(payload.TrackerList); payload.TrackerList = compact(payload.TrackerList)
\* local: the slice of TorrentSet's copy of the payload; caller: the caller's
\* slice, which keeps its length and shares the array.
fixTrackers(tl) ==
    IF IsNil(tl) THEN [local |-> None, caller |-> None]
    ELSE LET r == compact(sortStrings(Deref(tl)))
         IN  [local |-> Some(Slice(r)), caller |-> Some(r.arr)]

\* a send that tries once more after a failure
sendRetry(local, res) ==
    [err |-> IF res # NoError
             THEN <<"'torrent-set' rpc method failed">> \o res
             ELSE NoError,
     calls |-> IF res # NoError
               THEN <<rpcCall("torrent-set", local, res), rpcCall("torrent-set", local, res)>>
               ELSE <<rpcCall("torrent-set", local, res)>>]

\* the call of rpcCall and the wrapping of its error
send(local, res) ==
    [err |-> IF res # NoError
             THEN <<"'torrent-set' rpc method failed">> \o res
             ELSE NoError,
     calls |-> <<rpcCall("torrent-set", local, res)>>]

\* TorrentSet(ctx, p) when the transport answers res:
\* err returned, calls issued, and the caller's payload afterwards
TorrentSet(p, res) ==
    IF validate(p)
    THEN [err |-> <<"there must be at least one ID">>, calls |-> <<>>, caller |-> p]
    ELSE LET fixed == fixTrackers(p.TrackerList)
             sent == send([p EXCEPT !.TrackerList = fixed.local], res)
         IN  [err |-> sent.err,
              calls |-> sent.calls,
              caller |-> [p EXCEPT !.TrackerList = fixed.caller]]

----------------------------------------------------------------------------
(* The payloads a caller builds *)

TrackerStrings == {<<>>, <<97>>, <<98>>}     \* "", "a", "b"

SeqsUpTo(S, n) == UNION {[1..m -> S] : m \in 0..n}

ValuesOf(kind) ==
    CASE kind = "int" -> {0, 1}
      [] kind = "bool" -> {FALSE, TRUE}
      [] kind = "ints" -> {<<>>, <<0>>}
      [] kind = "str" -> {"", "x"}
      [] kind = "strs" -> {<<>>, <<"x">>}
      [] kind = "float" -> {0, 1}
      [] kind = "mode" -> {0, 1}
      [] kind = "dur" -> {h * (Minute \div 2) : h \in (-MaxHalfMinutes)..MaxHalfMinutes}
      [] kind = "trackers" -> SeqsUpTo(TrackerStrings, MaxTrackers)

\* one optional attribute set to one value
Settings ==
    UNION {{<<Fields[i].name, v>> : v \in ValuesOf(Fields[i].kind)} :
           i \in {j \in 1..Len(Fields) : Fields[j].name # "IDs"}}

\* the sets of at most n settings of different attributes
RECURSIVE SettingSets(_)
SettingSets(n) ==
    IF n = 0 THEN {{}}
    ELSE LET P == SettingSets(n - 1)
         IN  P \cup {A \cup {x} : A \in P, x \in Settings}

Disjoint(A) == \A x \in A, y \in A : x[1] = y[1] => x = y

IDLists == {None} \cup {Some(l) : l \in SeqsUpTo({1, 2}, MaxIDs)}

MakePayload(ids, A) ==
    [f \in FieldNames |->
        IF f = "IDs" THEN ids
        ELSE IF \E x \in A : x[1] = f THEN Some((CHOOSE x \in A : x[1] = f)[2])
        ELSE None]

KindOf(f) == Fields[CHOOSE i \in 1..Len(Fields) : Fields[i].name = f].kind

\* a payload with every optional attribute set: to its zero value, or to
\* another value
FullPayload(ids, zero) ==
    [f \in FieldNames |->
        IF f = "IDs" THEN ids
        ELSE Some(CHOOSE v \in ValuesOf(KindOf(f)) : IsZero(KindOf(f), v) <=> zero)]

\* sparse payloads (IDs and at most MaxSet other attributes) and full ones
Payloads ==
    {MakePayload(ids, A) : ids \in IDLists,
                           A \in {B \in SettingSets(MaxSet) : Disjoint(B)}}
    \cup {FullPayload(ids, zero) : ids \in IDLists, zero \in BOOLEAN}

----------------------------------------------------------------------------
(* Callers of TorrentSet and MarshalJSON *)

NoOut == [arr |-> <<>>, len |-> 0]

Init ==
    /\ pc = "built"
    /\ payload \in Payloads
    /\ built = payload
    /\ calls = <<>>
    /\ err = NoError
    /\ data = EmptyMap
    /\ s = <<>>
    /\ out = NoOut

\* err = c.TorrentSet(ctx, payload)
CallTorrentSet ==
    /\ pc = "built"
    /\ \E res \in RPCResults :
         LET r == TorrentSet(payload, res)
         IN  /\ err' = r.err
             /\ calls' = calls \o r.calls
             /\ payload' = r.caller
    /\ pc' = "returned"
    /\ UNCHANGED <<built, data, s, out>>

\* data, _ = payload.MarshalJSON()
CallMarshalJSON ==
    /\ pc = "built"
    /\ data' = MarshalJSON(payload)
    /\ pc' = "marshalled"
    /\ UNCHANGED <<payload, built, calls, err, s, out>>

Next == CallTorrentSet \/ CallMarshalJSON

Spec == Init /\ [][Next]_vars

----------------------------------------------------------------------------
(* Callers of compact *)

InitCompact ==
    /\ pc = "input"
    /\ s \in SeqsUpTo(TrackerStrings, MaxLen)
    /\ out = NoOut
    /\ payload = MakePayload(None, {})
    /\ built = payload
    /\ calls = <<>>
    /\ err = NoError
    /\ data = EmptyMap

\* r := compact(s)
CallCompact ==
    /\ pc = "input"
    /\ out' = compact(s)
    /\ pc' = "compacted"
    /\ UNCHANGED <<s, payload, built, calls, err, data>>

NextCompact == CallCompact

SpecCompact == InitCompact /\ [][NextCompact]_vars

----------------------------------------------------------------------------
(* Properties *)

Range(l) == {l[i] : i \in 1..Len(l)}

\* the wire mapping of the payload TorrentSet handed to the transport, when
\* it issued a call
Sent == MarshalJSON(calls[1].arguments)

\* the key an attribute has on the wire
WireKey(i) ==
    IF Fields[i].name = "SeedIdleLimit" THEN "seedIdleLimit"
    ELSE IF Fields[i].name = "TrackerList" THEN "trackerList"
    ELSE Fields[i].tag

IsSet(p, i) == ~IsNil(p[Fields[i].name])

OnlyIDsSet(p) == \A i \in 1..Len(Fields) : IsSet(p, i) <=> Fields[i].name = "IDs"

\* C1: TorrentSet with an IDs list that is nil or of length 0 returns the
\* validation error and issues no call of the transport.
C1_EmptyIDsNoCall ==
    (pc = "returned" /\ len(built.IDs) = 0)
        => /\ err = <<"there must be at least one ID">>
           /\ calls = <<>>

C1_Witness ==
    /\ pc = "returned"
    /\ built.IDs = Some(<<>>)
    /\ ~IsNil(built.TrackerList)
    /\ err # NoError

\* C2: every key of the mapping MarshalJSON builds is the wire key of exactly
\* one attribute that is set, and a payload with only IDs set encodes to the
\* single key "ids".
C2_OnlySetKeys ==
    pc = "marshalled"
        => /\ \A k \in DOMAIN data :
                Cardinality({i \in 1..Len(Fields) : IsSet(payload, i) /\ WireKey(i) = k}) = 1
           /\ \A i \in 1..Len(Fields) :
                ~IsSet(payload, i) => WireKey(i) \notin DOMAIN data
           /\ "-" \notin DOMAIN data
           /\ OnlyIDsSet(payload) => DOMAIN data = {"ids"}

C2_Witness ==
    /\ pc = "marshalled"
    /\ OnlyIDsSet(payload)
    /\ DOMAIN data = {"ids"}

\* C3: every attribute that is set is in the mapping under its wire key, with
\* its value, also when the value is 0, false or an empty list.
C3_SetValuesKept ==
    pc = "marshalled"
        => \A i \in 1..Len(Fields) :
              IsSet(payload, i)
                => /\ WireKey(i) \in DOMAIN data
                   /\ Fields[i].kind \notin {"dur", "trackers"}
                        => data[WireKey(i)] = Deref(payload[Fields[i].name])

C3_Witness ==
    /\ pc = "marshalled"
    /\ payload.PeerLimit = Some(0)
    /\ payload.DownloadLimited = Some(FALSE)
    /\ payload.FilesWanted = Some(<<>>)
    /\ data["peer-limit"] = 0
    /\ data["downloadLimited"] = FALSE
    /\ data["files-wanted"] = <<>>

\* the elements of S in ascending order, each once
RECURSIVE Ascending(_)
Ascending(S) ==
    IF S = {} THEN <<>>
    ELSE LET m == CHOOSE x \in S : \A y \in S \ {x} : Less(x, y)
         IN  <<m>> \o Ascending(S \ {m})

\* C4: the value TorrentSet sends under "trackerList" is the distinct elements
\* of the caller's list in ascending order, joined by "\n"; it depends on the
\* set of the elements only.
C4_TrackerListNormalised ==
    (pc = "returned" /\ len(built.IDs) > 0 /\ ~IsNil(built.TrackerList))
        => /\ Len(calls) = 1
           /\ "trackerList" \in DOMAIN Sent
           /\ Sent["trackerList"] = Join(Ascending(Range(Deref(built.TrackerList))))

C4_Witness ==
    /\ pc = "returned"
    /\ Len(calls) = 1
    /\ built.TrackerList = Some(<< <<98>>, <<97>>, <<97>> >>)
    /\ Sent["trackerList"] = <<97, NL, 98>>

\* strings.Split(str, "\n")
RECURSIVE Split(_)
Split(str) ==
    IF \A i \in 1..Len(str) : str[i] # NL THEN <<str>>
    ELSE LET n == CHOOSE i \in 1..Len(str) :
                    str[i] = NL /\ \A j \in 1..(i - 1) : str[j] # NL
         IN  <<SubSeq(str, 1, n - 1)>> \o Split(SubSeq(str, n + 1, Len(str)))

\* the tiers of a tracker list: the sets of URLs between blank entries
RECURSIVE Tiers(_)
Tiers(l) ==
    IF l = <<>> THEN <<{}>>
    ELSE LET rest == Tiers(Tail(l))
         IN  IF Head(l) = <<>> THEN <<{}>> \o rest
             ELSE <<rest[1] \cup {Head(l)}>> \o Tail(rest)

\* a blank entry between two announce URLs
HasTierSeparator(l) ==
    \E i \in 2..(Len(l) - 1) : l[i] = <<>> /\ l[i - 1] # <<>> /\ l[i + 1] # <<>>

\* C5: when the caller's list separates tiers by blank entries, the string
\* TorrentSet sends has the same tiers: every URL stays in its tier.
C5_TiersKept ==
    (/\ pc = "returned"
     /\ Len(calls) = 1
     /\ ~IsNil(built.TrackerList)
     /\ HasTierSeparator(Deref(built.TrackerList)))
        => Tiers(Split(Sent["trackerList"])) = Tiers(Deref(built.TrackerList))

IsSorted(l) == \A i \in 1..(Len(l) - 1) : ~Less(l[i + 1], l[i])

\* l without the elements equal to their immediate predecessor
RECURSIVE Uniq(_)
Uniq(l) ==
    IF Len(l) < 2 THEN l
    ELSE LET front == Uniq(SubSeq(l, 1, Len(l) - 1))
         IN  IF l[Len(l)] = l[Len(l) - 1] THEN front ELSE Append(front, l[Len(l)])

\* C6: on a sorted sequence compact returns the sequence without the elements
\* equal to their predecessor: no two adjacent elements of the result are
\* equal, lengths 0 and 1 are returned unchanged, and compact of the result
\* is the result.
C6_CompactSorted ==
    (pc = "compacted" /\ IsSorted(s))
        => LET r == Slice(out)
           IN  /\ r = Uniq(s)
               /\ \A i \in 1..(Len(r) - 1) : r[i] # r[i + 1]
               /\ Range(r) = Range(s)
               /\ Len(s) < 2 => r = s
               /\ Slice(compact(r)) = r

C6_Witness ==
    /\ pc = "compacted"
    /\ IsSorted(s)
    /\ Len(s) = 4
    /\ s[1] = s[2]
    /\ s[3] # s[2]
    /\ Slice(out) = <<s[1], s[3]>>

\* m is d in whole minutes, the remainder dropped
WholeMinutes(d, m) ==
    IF d >= 0 THEN m >= 0 /\ m * Minute <= d /\ d < (m + 1) * Minute
    ELSE m <= 0 /\ m * Minute >= d /\ d > (m - 1) * Minute

\* C7: "seedIdleLimit" is in the mapping exactly when SeedIdleLimit is set, and
\* its value is the duration in whole minutes, the remainder truncated.
C7_SeedIdleLimitMinutes ==
    pc = "marshalled"
        => /\ "seedIdleLimit" \in DOMAIN data <=> ~IsNil(payload.SeedIdleLimit)
           /\ ~IsNil(payload.SeedIdleLimit)
                => WholeMinutes(Deref(payload.SeedIdleLimit), data["seedIdleLimit"])

C7_Witness ==
    /\ pc = "marshalled"
    /\ payload.SeedIdleLimit = Some(Minute + Minute \div 2)
    /\ data["seedIdleLimit"] = 1

\* e wraps cause: the chain of e ends with the chain of cause
Wraps(e, cause) ==
    /\ Len(e) > Len(cause)
    /\ SubSeq(e, Len(e) - Len(cause) + 1, Len(e)) = cause

\* C8: with IDs not empty TorrentSet calls the transport exactly once, with
\* method "torrent-set"; it returns an error wrapping the transport's when
\* the call fails, and no error when it succeeds.
C8_OneCall ==
    (pc = "returned" /\ len(built.IDs) > 0)
        => /\ Len(calls) = 1
           /\ calls[1].method = "torrent-set"
           /\ calls[1].result = NoError => err = NoError
           /\ calls[1].result # NoError => Wraps(err, calls[1].result)

C8_Witness ==
    /\ pc = "returned"
    /\ Len(calls) = 1
    /\ calls[1].result # NoError
    /\ err = <<"'torrent-set' rpc method failed">> \o calls[1].result

\* C9: after compact returns a shorter slice, the elements of the array
\* between the new and the original length hold the zero value "".
C9_TailZeroed ==
    pc = "compacted"
        => \A i \in (out.len + 1)..Len(s) : out.arr[i] = <<>>

\* C10: TorrentSet changes nothing of the caller's payload but the elements of
\* TrackerList: nothing at all when validation fails, and neither another
\* attribute nor the length of TrackerList when it passes.
C10_CallerPayloadKept ==
    pc = "returned"
        => /\ len(built.IDs) = 0 => payload = built
           /\ \A f \in FieldNames \ {"TrackerList"} : payload[f] = built[f]
           /\ IsNil(payload.TrackerList) <=> IsNil(built.TrackerList)
           /\ len(payload.TrackerList) = len(built.TrackerList)

C10_Witness ==
    /\ pc = "returned"
    /\ len(built.IDs) > 0
    /\ len(built.TrackerList) = 3
    /\ payload.TrackerList # built.TrackerList
    /\ len(payload.TrackerList) = 3
    /\ Len(Split(Sent["trackerList"])) < 3

====
